---- MODULE Spec2Model ----
(***************************************************************************)
(* Behaviour model of src/script.js: the testimonial carousel              *)
(* (class TestimonialSlider) and the contact-form submission pipeline      *)
(* (initializeContactForm, validateField, validateForm, submitContactForm, *)
(* showNotification).                                                      *)
(*                                                                         *)
(* Time is counted in quanta of TimeQuantum milliseconds.  A timer is a    *)
(* countdown in quanta; it fires when the countdown is 0 and time does not *)
(* advance past a due timer.  Event handlers run to completion (the        *)
(* runtime is single-threaded), so every handler is one action.            *)
(***************************************************************************)
EXTENDS Integers, FiniteSets, Sequences

VARIABLES
    slider,        \* the TestimonialSlider object, its DOM classes and its repeating timers
    startupTimer,  \* countdown of init()'s one-shot timer, NoTimer once fired
    resumeTimers,  \* pending one-shot resume timers: countdown -> how many
    hovering,      \* the pointer is over .testimonials-section
    visibility,    \* document.visibilityState
    uncaught,      \* an exception left a handler or a direct call uncaught
    op,            \* the handler or call that made the last step, with its argument
    stopped,       \* stopAutoplay() has run and startAutoplay() has not been called since
    before,        \* currentIndex before the last step
    nextRun,       \* the steps calling next() made in a row, and currentIndex before them
    roundTrip,     \* the last two steps called prev() then next(), or next() then prev()
    undisturbed,   \* the resume delay of the last user navigation is running, and no
                   \* hover exit, visibility change or direct start came since
    form,          \* #contactForm: its fields, their inline errors, the honeypot, the button
    now,           \* Date.now(), in milliseconds
    lastSubmit,    \* formSubmitTracker.lastSubmit
    inflight,      \* the fetch() requests awaiting their response
    dispatched,    \* how many requests were sent to the endpoint so far
    lastDispatch,  \* Date.now() when the last request was sent, NoTimer before the first
    notifications, \* the .notification elements in the page, each with its timer
    unhandled,     \* a rejection left the fetch() promise chain unhandled
    detachedTimers,\* pending timers of notifications that have left the page
    cards,         \* the .project-card elements: category, style.display, classes
    cardTimers,    \* pending one-shot timers of the project filter
    filter,        \* data-filter of the last filter button clicked
    modals,        \* the modal types whose element has the class active
    activeModal,   \* ModalSystem.activeModal
    overflow       \* document.body.style.overflow

sliderVars == <<slider, startupTimer, resumeTimers, hovering, visibility, uncaught,
                stopped, before, nextRun, roundTrip, undisturbed>>
formVars == <<form, now, lastSubmit, inflight, dispatched, lastDispatch,
              notifications, unhandled>>
widgetVars == <<detachedTimers, cards, cardTimers, filter, modals, activeModal, overflow>>
vars == <<sliderVars, formVars, widgetVars, op>>

----------------------------------------------------------------------------
(* Bounds of the model *)

MaxSlides == 3          \* testimonials.length ranges over 0..MaxSlides
MaxDots == 2            \* dots.length is 0 or MaxDots: fewer, as many or more dots than slides
MaxIntervals == 3       \* repeating timers the timer service can hold at once
MaxPendingResume == 2   \* one-shot resume timers pending at once
TimeQuantum == 2500     \* milliseconds per quantum of model time
MaxFormQuanta == 3      \* quanta the clock of the form's page runs for
MaxCards == 2           \* .project-card elements in the page

(* Program constants: CONFIG *)

TESTIMONIAL_AUTOPLAY_DELAY == 5000
TESTIMONIAL_RESUME_DELAY == 10000
STARTUP_DELAY == 500

\* A delay in quanta, rounded up: a timer never fires before its delay.
Quanta(ms) == (ms + TimeQuantum - 1) \div TimeQuantum

NoTimer == -1
Null == 0               \* this.interval = null; timer handles are 1, 2, ...

----------------------------------------------------------------------------
(* JavaScript numbers as far as the carousel uses them: integers and NaN *)

Num(v) == [nan |-> FALSE, val |-> v]
NaN == [nan |-> TRUE, val |-> 0]

\* a % b: NaN for b = 0, else the remainder with the sign of a.
JsMod(a, b) ==
    IF b = 0 THEN NaN
    ELSE IF a >= 0 THEN Num(a % b) ELSE Num(0 - ((0 - a) % b))

\* a < b and a >= b are both false when either side is NaN.
JsLt(a, b) == ~a.nan /\ ~b.nan /\ a.val < b.val
JsGe(a, b) == ~a.nan /\ ~b.nan /\ a.val >= b.val

----------------------------------------------------------------------------
(* TestimonialSlider.  A slider value s has the fields                     *)
(*   length, dots      testimonials.length and dots.length                 *)
(*   currentIndex      this.currentIndex                                   *)
(*   interval          this.interval: Null or a timer handle               *)
(*   slideActive       the slides whose classList holds "active"           *)
(*   dotActive         the dots whose classList holds "active"             *)
(*   timers            the scheduled repeating timers: handle -> countdown *)
(*   exc               an exception is propagating out of the method       *)

TimerIds == 1..MaxIntervals

FreeIds(s) == TimerIds \ DOMAIN s.timers

\* setInterval: the handle is the smallest one not in use.
NewTimerId(s) == CHOOSE i \in FreeIds(s) : \A j \in FreeIds(s) : i <= j

\* show() with the lower half of its range check missing
show_NoLowerBound(s, index) ==
    IF JsGe(index, Num(s.length)) THEN s
    ELSE LET cleared == [s EXCEPT !.slideActive = {}, !.dotActive = {}] IN
         IF index.nan \/ index.val \notin 0..(s.length - 1)
         THEN [cleared EXCEPT !.exc = TRUE]
         ELSE [cleared EXCEPT !.slideActive = {index.val},
                              !.dotActive = IF index.val < s.dots THEN {index.val} ELSE {},
                              !.currentIndex = index.val]

\* show() without its "hide all" loops
show_KeepsOldActive(s, index) ==
    IF JsLt(index, Num(0)) \/ JsGe(index, Num(s.length)) THEN s
    ELSE IF index.nan \/ index.val \notin 0..(s.length - 1)
         THEN [s EXCEPT !.exc = TRUE]
         ELSE [s EXCEPT !.slideActive = @ \cup {index.val},
                        !.dotActive = IF index.val < s.dots THEN @ \cup {index.val} ELSE @,
                        !.currentIndex = index.val]

show(s, index) ==
    IF JsLt(index, Num(0)) \/ JsGe(index, Num(s.length)) THEN s
    ELSE LET cleared == [s EXCEPT !.slideActive = {}, !.dotActive = {}] IN
         \* testimonials[index] is undefined: reading .classList throws a TypeError
         IF index.nan \/ index.val \notin 0..(s.length - 1)
         THEN [cleared EXCEPT !.exc = TRUE]
         ELSE [cleared EXCEPT !.slideActive = {index.val},
                              !.dotActive = IF index.val < s.dots THEN {index.val} ELSE {},
                              !.currentIndex = index.val]

\* next() without the modulo
nextIndex_NoWrap(s) == Num(s.currentIndex + 1)

nextIndex(s) == JsMod(s.currentIndex + 1, s.length)

\* prev() without adding the length before the modulo
prevIndex_NoAdd(s) == JsMod(s.currentIndex - 1, s.length)

prevIndex(s) == JsMod(s.currentIndex - 1 + s.length, s.length)

next(s) == show(s, nextIndex(s))

prev(s) == show(s, prevIndex(s))

\* stopAutoplay() that drops the handle without clearInterval
stopAutoplay_KeepsTimer(s) ==
    IF s.interval # Null THEN [s EXCEPT !.interval = Null] ELSE s

stopAutoplay(s) ==
    IF s.interval # Null
    THEN [s EXCEPT !.timers = [i \in DOMAIN @ \ {s.interval} |-> @[i]],
                   !.interval = Null]
    ELSE s

\* setInterval(() => this.next(), this.autoplayDelay)
setInterval(s) ==
    LET id == NewTimerId(s) IN
    [s EXCEPT !.timers = [i \in DOMAIN @ \cup {id} |->
                              IF i = id THEN Quanta(TESTIMONIAL_AUTOPLAY_DELAY) ELSE @[i]],
              !.interval = id]

\* startAutoplay() without the stopAutoplay() call in front
startAutoplay_NoStop(s) == setInterval(s)

startAutoplay(s) == setInterval(stopAutoplay(s))

\* The timer service can take one more repeating timer after s.interval is cleared.
CanStart(s) == FreeIds(s) # {}

----------------------------------------------------------------------------
(* Initial states: the page after new TestimonialSlider() and init() *)

Constructed(n, d, marked) ==
    [length |-> n, dots |-> d, currentIndex |-> 0, interval |-> Null,
     slideActive |-> {}, dotActive |-> marked, timers |-> [i \in {} |-> 0], exc |-> FALSE]

\* init() returns early on an empty carousel: no listeners, no show(0), no timer.
Listening == slider.length # 0

SliderLoaded(n, d) ==
    /\ IF n = 0
       THEN /\ \E marked \in SUBSET (0..(d - 1)) : slider = Constructed(n, d, marked)
            /\ startupTimer = NoTimer
       ELSE /\ slider = show(Constructed(n, d, {}), Num(0))
            /\ startupTimer = Quanta(STARTUP_DELAY)
    /\ resumeTimers = [r \in 0..Quanta(TESTIMONIAL_RESUME_DELAY) |-> 0]
    /\ hovering = FALSE
    /\ visibility = "visible"
    /\ uncaught = FALSE
    /\ stopped = FALSE
    /\ before = 0
    /\ nextRun = [count |-> 0, start |-> 0]
    /\ roundTrip = [kind |-> "none", origin |-> 0]
    /\ undisturbed = FALSE

----------------------------------------------------------------------------
(* Steps of the carousel.  Every handler runs to completion; an exception  *)
(* thrown by a call ends the handler at that call.                         *)

Settle(s) == [s EXCEPT !.exc = FALSE]

\* The steps whose handler calls next() exactly once, and prev() exactly once.
NextSteps == {"NextClick", "AutoplayTick", "TabVisible", "CallNext"}
PrevSteps == {"PrevClick", "CallPrev"}

\* The handlers of a user navigation, and the steps that start autoplay or
\* change the visibility outside the resume timers.
NavigationSteps == {"NextClick", "PrevClick", "DotClick"}
DisturbingSteps == {"MouseLeave", "TabVisible", "TabHidden", "CallStartAutoplay"}

\* The resume timer of the last user navigation has more than q quanta to run.
ResumePendingBeyond(q) ==
    \E r \in (q + 1)..Quanta(TESTIMONIAL_RESUME_DELAY) : resumeTimers[r] > 0

\* The record of a step of the carousel: which handler ran, and what it followed.
\* No handler of the carousel touches the contact form.
Track(name) ==
    /\ op' = name
    /\ UNCHANGED <<formVars, widgetVars>>
    /\ before' = slider.currentIndex
    /\ nextRun' =
         IF name[1] \in NextSteps
         THEN IF nextRun.count < slider.length
              THEN [nextRun EXCEPT !.count = @ + 1]
              ELSE [count |-> 1, start |-> slider.currentIndex]
         ELSE [count |-> 0, start |-> slider'.currentIndex]
    /\ roundTrip' =
         IF name[1] \in NextSteps /\ op[1] \in PrevSteps
         THEN [kind |-> "prev-next", origin |-> before]
         ELSE IF name[1] \in PrevSteps /\ op[1] \in NextSteps
              THEN [kind |-> "next-prev", origin |-> before]
              ELSE [kind |-> "none", origin |-> 0]
    /\ undisturbed' =
         IF name[1] \in NavigationSteps THEN slider.length > 0
         ELSE IF name[1] \in DisturbingSteps THEN FALSE
         ELSE IF name[1] = "TimePasses" THEN undisturbed /\ ResumePendingBeyond(1)
         ELSE undisturbed

PendingResume ==
    LET RECURSIVE Sum(_)
        Sum(r) == IF r < 0 THEN 0 ELSE resumeTimers[r] + Sum(r - 1)
    IN Sum(Quanta(TESTIMONIAL_RESUME_DELAY))

\* A navigation handler that schedules no resume timer
ScheduleResume_Never == UNCHANGED resumeTimers

\* setTimeout(() => this.startAutoplay(), CONFIG.TESTIMONIAL_RESUME_DELAY)
ScheduleResume ==
    resumeTimers' = [resumeTimers EXCEPT ![Quanta(TESTIMONIAL_RESUME_DELAY)] = @ + 1]

\* A button or dot handler: stopAutoplay(), the navigation, then the resume timer.
UserNavigation(navigated, name) ==
    /\ Listening
    /\ PendingResume < MaxPendingResume
    /\ slider' = Settle(navigated)
    /\ uncaught' = (uncaught \/ navigated.exc)
    /\ IF navigated.exc THEN UNCHANGED resumeTimers ELSE ScheduleResume
    /\ stopped' = TRUE
    /\ Track(name)
    /\ UNCHANGED <<startupTimer, hovering, visibility>>

NextClick == UserNavigation(next(stopAutoplay(slider)), <<"NextClick">>)

PrevClick == UserNavigation(prev(stopAutoplay(slider)), <<"PrevClick">>)

DotClick(index) ==
    /\ index \in 0..(slider.dots - 1)
    /\ UserNavigation(show(stopAutoplay(slider), Num(index)), <<"DotClick", index>>)

MouseEnter ==
    /\ Listening
    /\ ~hovering
    /\ hovering' = TRUE
    /\ slider' = stopAutoplay(slider)
    /\ stopped' = TRUE
    /\ Track(<<"MouseEnter">>)
    /\ UNCHANGED <<startupTimer, resumeTimers, visibility, uncaught>>

MouseLeave ==
    /\ Listening
    /\ hovering
    /\ CanStart(slider)
    /\ hovering' = FALSE
    /\ slider' = startAutoplay(slider)
    /\ stopped' = FALSE
    /\ Track(<<"MouseLeave">>)
    /\ UNCHANGED <<startupTimer, resumeTimers, visibility, uncaught>>

\* A visibilitychange handler that restarts autoplay without calling next()
TabVisible_StartOnly ==
    /\ Listening
    /\ visibility = "hidden"
    /\ CanStart(slider)
    /\ visibility' = "visible"
    /\ slider' = startAutoplay(slider)
    /\ stopped' = FALSE
    /\ Track(<<"TabVisible">>)
    /\ UNCHANGED <<startupTimer, resumeTimers, hovering, uncaught>>

TabVisible ==
    /\ Listening
    /\ visibility = "hidden"
    /\ CanStart(slider)
    /\ visibility' = "visible"
    /\ LET advanced == next(slider) IN
         /\ slider' = IF advanced.exc THEN Settle(advanced) ELSE startAutoplay(advanced)
         /\ uncaught' = (uncaught \/ advanced.exc)
         /\ stopped' = IF advanced.exc THEN stopped ELSE FALSE
    /\ Track(<<"TabVisible">>)
    /\ UNCHANGED <<startupTimer, resumeTimers, hovering>>

TabHidden ==
    /\ Listening
    /\ visibility = "visible"
    /\ visibility' = "hidden"
    /\ slider' = stopAutoplay(slider)
    /\ stopped' = TRUE
    /\ Track(<<"TabHidden">>)
    /\ UNCHANGED <<startupTimer, resumeTimers, hovering, uncaught>>

\* init()'s setTimeout(() => this.startAutoplay(), 500) comes due.
StartupTimerFires ==
    /\ startupTimer = 0
    /\ CanStart(slider)
    /\ startupTimer' = NoTimer
    /\ slider' = startAutoplay(slider)
    /\ stopped' = FALSE
    /\ Track(<<"StartupTimerFires">>)
    /\ UNCHANGED <<resumeTimers, hovering, visibility, uncaught>>

ResumeTimerFires ==
    /\ resumeTimers[0] > 0
    /\ CanStart(slider)
    /\ resumeTimers' = [resumeTimers EXCEPT ![0] = @ - 1]
    /\ slider' = startAutoplay(slider)
    /\ stopped' = FALSE
    /\ Track(<<"ResumeTimerFires">>)
    /\ UNCHANGED <<startupTimer, hovering, visibility, uncaught>>

\* A repeating timer comes due: it is rescheduled and its callback calls next().
AutoplayTick(id) ==
    /\ id \in DOMAIN slider.timers
    /\ slider.timers[id] = 0
    /\ LET rearmed == [slider EXCEPT !.timers[id] = Quanta(TESTIMONIAL_AUTOPLAY_DELAY)]
           advanced == next(rearmed)
       IN /\ slider' = Settle(advanced)
          /\ uncaught' = (uncaught \/ advanced.exc)
    /\ Track(<<"AutoplayTick">>)
    /\ UNCHANGED <<startupTimer, resumeTimers, hovering, visibility, stopped>>

TimerDue ==
    \/ startupTimer = 0
    \/ resumeTimers[0] > 0
    \/ \E id \in DOMAIN slider.timers : slider.timers[id] = 0

TimerPending ==
    \/ startupTimer # NoTimer
    \/ PendingResume > 0
    \/ DOMAIN slider.timers # {}

\* One quantum passes: every pending countdown goes down by one.
SliderTimePasses ==
    /\ TimerPending
    /\ ~TimerDue
    /\ slider' = [slider EXCEPT !.timers = [i \in DOMAIN @ |-> @[i] - 1]]
    /\ startupTimer' = IF startupTimer = NoTimer THEN NoTimer ELSE startupTimer - 1
    /\ resumeTimers' = [r \in DOMAIN resumeTimers |->
                           IF r + 1 \in DOMAIN resumeTimers THEN resumeTimers[r + 1] ELSE 0]
    /\ Track(<<"TimePasses">>)
    /\ UNCHANGED <<hovering, visibility, uncaught, stopped>>

(* Direct calls of the object's methods (testimonialSlider is a global) *)

DirectCall(result, name, nowStopped) ==
    /\ slider' = Settle(result)
    /\ uncaught' = (uncaught \/ result.exc)
    /\ stopped' = nowStopped
    /\ Track(name)
    /\ UNCHANGED <<startupTimer, resumeTimers, hovering, visibility>>

CallShow(index) == DirectCall(show(slider, Num(index)), <<"CallShow", index>>, stopped)

CallNext == DirectCall(next(slider), <<"CallNext">>, stopped)

CallPrev == DirectCall(prev(slider), <<"CallPrev">>, stopped)

CallStartAutoplay ==
    /\ CanStart(slider)
    /\ DirectCall(startAutoplay(slider), <<"CallStartAutoplay">>, FALSE)

CallStopAutoplay == DirectCall(stopAutoplay(slider), <<"CallStopAutoplay">>, TRUE)

ShowArgs == (0 - 1)..MaxSlides

SliderNext ==
    \/ NextClick
    \/ PrevClick
    \/ \E index \in 0..(MaxDots - 1) : DotClick(index)
    \/ MouseEnter
    \/ MouseLeave
    \/ TabVisible
    \/ TabHidden
    \/ StartupTimerFires
    \/ ResumeTimerFires
    \/ \E id \in TimerIds : AutoplayTick(id)
    \/ SliderTimePasses
    \/ \E index \in ShowArgs : CallShow(index)
    \/ CallNext
    \/ CallPrev
    \/ CallStartAutoplay
    \/ CallStopAutoplay

----------------------------------------------------------------------------
(* Strings are sequences of one-character strings. *)

Digits == {"0", "1", "2", "3", "4", "5", "6", "7", "8", "9"}

Letters ==
    {"a", "b", "c", "d", "e", "f", "g", "h", "i", "j", "k", "l", "m",
     "n", "o", "p", "q", "r", "s", "t", "u", "v", "w", "x", "y", "z",
     "A", "B", "C", "D", "E", "F", "G", "H", "I", "J", "K", "L", "M",
     "N", "O", "P", "Q", "R", "S", "T", "U", "V", "W", "X", "Y", "Z"}

Alnum == Letters \cup Digits

\* The character class of the local part: letters, digits and . ! # $ % & ' * + / = ?
\* ^ _ { | } ~ - and the grave accent (written "grave" here).
LocalChars ==
    Alnum \cup {".", "!", "#", "$", "%", "&", "'", "*", "+", "/", "=", "?",
                "^", "_", "grave", "{", "|", "}", "~", "-"}

Whitespace == {" "}

Empty == << >>

\* String.prototype.trim
RECURSIVE TrimStart(_)
TrimStart(str) ==
    IF str # Empty /\ Head(str) \in Whitespace THEN TrimStart(Tail(str)) ELSE str

RECURSIVE TrimEnd(_)
TrimEnd(str) ==
    IF str # Empty /\ str[Len(str)] \in Whitespace
    THEN TrimEnd(SubSeq(str, 1, Len(str) - 1))
    ELSE str

\* value used as typed, without String.prototype.trim()
trim_None(str) == str

trim(str) == TrimEnd(TrimStart(str))

\* [a-zA-Z0-9](?:[a-zA-Z0-9-]{0,61}[a-zA-Z0-9])?
IsDomainLabel(str) ==
    /\ Len(str) \in 1..63
    /\ str[1] \in Alnum
    /\ str[Len(str)] \in Alnum
    /\ \A i \in 1..Len(str) : str[i] \in Alnum \cup {"-"}

\* label(?:\.label)+ : two or more labels separated by single dots
RECURSIVE IsDottedLabels(_, _)
IsDottedLabels(str, atLeast) ==
    \/ atLeast <= 1 /\ IsDomainLabel(str)
    \/ \E i \in 2..(Len(str) - 1) :
          /\ str[i] = "."
          /\ IsDomainLabel(SubSeq(str, 1, i - 1))
          /\ IsDottedLabels(SubSeq(str, i + 1, Len(str)), atLeast - 1)

\* emailRegex.test(value)
emailRegexTest(str) ==
    \E at \in 2..(Len(str) - 1) :
        /\ str[at] = "@"
        /\ \A i \in 1..(at - 1) : str[i] \in LocalChars
        /\ IsDottedLabels(SubSeq(str, at + 1, Len(str)), 2)

\* /[0-9]/.test(value)
hasDigit(str) == \E i \in 1..Len(str) : str[i] \in Digits

----------------------------------------------------------------------------
(* The contact form.  Its fields come from the page's markup; the model has *)
(* a required text field named "name" and an email field named "email",     *)
(* required or not, each in a wrapper element of its own.  A form value f   *)
(* has the fields                                                           *)
(*   required    field name -> the field has the required attribute         *)
(*   value       field name -> field.value                                  *)
(*   error       field name -> the text of its .field-error, NoError if none *)
(*   honeypot    the value of input[name="website"]                         *)
(*   button      the submit button: disabled and textContent                *)

FieldOrder == <<"name", "email">>

FieldNames == {FieldOrder[i] : i \in 1..Len(FieldOrder)}

FieldType == [name |-> "text", email |-> "email"]

NoError == ""

\* What a visitor types into the fields.
NameInputs == {Empty, <<"7">>, <<"J", "o">>}
EmailInputs == {Empty, <<" ">>, <<"a", "@", "b">>, <<" ", "a", "@", "b", ".", "c", "o">>}
HoneypotInputs == {Empty, <<"x">>}

Inputs(field) == IF field = "name" THEN NameInputs ELSE EmailInputs

IdleLabel == "Send Message"
BusyLabel == " Sending..."

\* validateField whose name checks are an if / else-if chain: the first one
\* that fires keeps its message
CheckField_FirstWins(f, field) ==
    LET value == trim(f.value[field])
        isName == FieldType[field] = "text" /\ field = "name" /\ value # Empty
    IN IF f.required[field] /\ value = Empty
       THEN [isValid |-> FALSE, errorMessage |-> "This field is required"]
       ELSE IF FieldType[field] = "email" /\ value # Empty /\ ~emailRegexTest(value)
       THEN [isValid |-> FALSE, errorMessage |-> "Please enter a valid email address"]
       ELSE IF isName /\ Len(value) < 2
       THEN [isValid |-> FALSE, errorMessage |-> "Name must be at least 2 characters"]
       ELSE IF isName /\ hasDigit(value)
       THEN [isValid |-> FALSE, errorMessage |-> "Name should not contain numbers"]
       ELSE [isValid |-> TRUE, errorMessage |-> ""]

\* validateField up to its "if (!isValid)": the checks run in the source's order
\* and each one that fires overwrites errorMessage.
CheckField(f, field) ==
    LET value == trim(f.value[field])
        start == [isValid |-> TRUE, errorMessage |-> ""]
        required ==
            IF f.required[field] /\ value = Empty
            THEN [isValid |-> FALSE, errorMessage |-> "This field is required"]
            ELSE start
        email ==
            IF FieldType[field] = "email" /\ value # Empty /\ ~emailRegexTest(value)
            THEN [isValid |-> FALSE, errorMessage |-> "Please enter a valid email address"]
            ELSE required
        isName == FieldType[field] = "text" /\ field = "name" /\ value # Empty
        short ==
            IF isName /\ Len(value) < 2
            THEN [isValid |-> FALSE, errorMessage |-> "Name must be at least 2 characters"]
            ELSE email
        numeric ==
            IF isName /\ hasDigit(value)
            THEN [isValid |-> FALSE, errorMessage |-> "Name should not contain numbers"]
            ELSE short
    IN numeric

clearFieldError(f, field) == [f EXCEPT !.error[field] = NoError]

showFieldError(f, field, message) == [f EXCEPT !.error[field] = message]

\* validateField: the form after it ran on the field
validateField(f, field) ==
    LET cleared == clearFieldError(f, field)
        result == CheckField(f, field)
    IN IF result.isValid THEN cleared
       ELSE showFieldError(cleared, field, result.errorMessage)

\* validateForm: querySelectorAll('[required]'), in document order
RequiredFields(f) == {field \in FieldNames : f.required[field]}

\* validateForm that returns at the first required field that fails
validateForm_StopsAtFirst(f) ==
    LET RECURSIVE Walk(_, _)
        Walk(g, i) ==
            IF i > Len(FieldOrder) THEN [form |-> g, isValid |-> TRUE]
            ELSE IF FieldOrder[i] \in RequiredFields(f)
                 THEN IF CheckField(g, FieldOrder[i]).isValid
                      THEN Walk(validateField(g, FieldOrder[i]), i + 1)
                      ELSE [form |-> validateField(g, FieldOrder[i]), isValid |-> FALSE]
                 ELSE Walk(g, i + 1)
    IN Walk(f, 1)

validateForm(f) ==
    LET RECURSIVE Walk(_, _)
        Walk(g, i) ==
            IF i > Len(FieldOrder) THEN [form |-> g, isValid |-> TRUE]
            ELSE IF FieldOrder[i] \in RequiredFields(f)
                 THEN LET rest == Walk(validateField(g, FieldOrder[i]), i + 1) IN
                      [rest EXCEPT !.isValid = @ /\ CheckField(g, FieldOrder[i]).isValid]
                 ELSE Walk(g, i + 1)
    IN Walk(f, 1)

\* form.reset(): every control back to its default value, the empty string
reset(f) == [f EXCEPT !.value = [field \in FieldNames |-> Empty], !.honeypot = Empty]

\* document.querySelectorAll('.field-error').forEach(error => error.remove())
removeFieldErrors(f) == [f EXCEPT !.error = [field \in FieldNames |-> NoError]]

\* The honeypot is a child of the form itself, so clearFieldError(honeypot) removes
\* form.querySelector('.field-error'): the first inline error of the form.
clearFirstFieldError(f) ==
    LET withError == {i \in 1..Len(FieldOrder) : f.error[FieldOrder[i]] # NoError} IN
    IF withError = {} THEN f
    ELSE LET first == CHOOSE i \in withError : \A j \in withError : i <= j IN
         clearFieldError(f, FieldOrder[first])

----------------------------------------------------------------------------
(* Notifications.  notifications is the sequence of .notification elements *)
(* in the page, in document order.  Each element carries the timer that    *)
(* showNotification's closures hold for it: the 5000 ms auto-dismiss timer *)
(* ("dismiss"), then the 300 ms removal timer ("remove").  The callbacks   *)
(* of an element that has left the page find parentElement null, or remove *)
(* a detached element: they change nothing and are not kept.               *)

NOTIFICATION_DISMISS_DELAY == 5000
NOTIFICATION_REMOVE_DELAY == 300

Notification(message, type) ==
    [type |-> type, message |-> message,
     stage |-> "dismiss", remaining |-> Quanta(NOTIFICATION_DISMISS_DELAY)]

\* showNotification: every existing notification is removed, the new one is
\* appended and its auto-dismiss timer is started.
\* showNotification that appends without removing the notifications in the page
showNotification_KeepsExisting(existing, message, type) ==
    Append(existing, Notification(message, type))

showNotification(existing, message, type) == <<Notification(message, type)>>

Without(seq, i) ==
    [j \in 1..(Len(seq) - 1) |-> IF j < i THEN seq[j] ELSE seq[j + 1]]

----------------------------------------------------------------------------
(* The submission pipeline *)

FORM_SUBMIT_COOLDOWN == 5000

\* Date.now() when the page loads: more than the cooldown after the epoch.
PageLoadTime == 2 * FORM_SUBMIT_COOLDOWN

\* The last instant of the model's clock.
LastInstant == PageLoadTime + MaxFormQuanta * TimeQuantum

\* the honeypot looked up under a name the form does not have
isBot_WrongField(f) == FALSE

\* honeypot && honeypot.value
isBot(f) == f.honeypot # Empty

\* now - formSubmitTracker.lastSubmit < formSubmitTracker.minDelay
rateLimited(t, last) == t - last < FORM_SUBMIT_COOLDOWN

FormLoaded(requiredEmail) ==
    /\ form = [required |-> [name |-> TRUE, email |-> requiredEmail],
               value |-> [field \in FieldNames |-> Empty],
               error |-> [field \in FieldNames |-> NoError],
               honeypot |-> Empty,
               button |-> [disabled |-> FALSE, label |-> IdleLabel]]
    /\ now = PageLoadTime
    /\ lastSubmit = 0
    /\ inflight = << >>
    /\ dispatched = 0
    /\ lastDispatch = NoTimer
    /\ notifications = << >>
    /\ unhandled = FALSE

\* A step of the form outside the promise chain: no handler of the form touches
\* the carousel.
FormStep(name) ==
    /\ op' = name
    /\ UNCHANGED <<sliderVars, widgetVars, unhandled>>

\* An input event on a field: the visitor changes its value.
InputField(field, value) ==
    /\ value \in Inputs(field)
    /\ value # form.value[field]
    /\ form' = clearFieldError([form EXCEPT !.value[field] = value], field)
    /\ FormStep(<<"InputField", field>>)
    /\ UNCHANGED <<now, lastSubmit, inflight, dispatched, lastDispatch, notifications>>

\* A blur event on a field
BlurField(field) ==
    /\ form' = validateField(form, field)
    /\ FormStep(<<"BlurField", field>>)
    /\ UNCHANGED <<now, lastSubmit, inflight, dispatched, lastDispatch, notifications>>

\* The honeypot gets a value: typed (an input event, whose listener runs
\* clearFieldError on it) or set by a script (no event).
FillHoneypot(value, typed) ==
    /\ value # form.honeypot
    /\ form' = IF typed THEN clearFirstFieldError([form EXCEPT !.honeypot = value])
                        ELSE [form EXCEPT !.honeypot = value]
    /\ FormStep(<<"FillHoneypot", typed>>)
    /\ UNCHANGED <<now, lastSubmit, inflight, dispatched, lastDispatch, notifications>>

\* submitContactForm without "formSubmitTracker.lastSubmit = now"
submitContactForm_NeverStamps(f) ==
    IF rateLimited(now, lastSubmit)
    THEN /\ form' = f
         /\ notifications' =
              showNotification(notifications, "Please wait before submitting again", "error")
         /\ UNCHANGED <<lastSubmit, inflight, dispatched, lastDispatch>>
    ELSE /\ UNCHANGED lastSubmit
         /\ form' = [f EXCEPT !.button = [disabled |-> TRUE, label |-> BusyLabel]]
         /\ inflight' = Append(inflight, [originalText |-> f.button.label])
         /\ dispatched' = dispatched + 1
         /\ lastDispatch' = now
         /\ UNCHANGED notifications

\* submitContactForm that stamps lastSubmit on a rate-limited attempt too
submitContactForm_RejectionStamps(f) ==
    IF rateLimited(now, lastSubmit)
    THEN /\ form' = f
         /\ notifications' =
              showNotification(notifications, "Please wait before submitting again", "error")
         /\ lastSubmit' = now
         /\ UNCHANGED <<inflight, dispatched, lastDispatch>>
    ELSE /\ lastSubmit' = now
         /\ form' = [f EXCEPT !.button = [disabled |-> TRUE, label |-> BusyLabel]]
         /\ inflight' = Append(inflight, [originalText |-> f.button.label])
         /\ dispatched' = dispatched + 1
         /\ lastDispatch' = now
         /\ UNCHANGED notifications

\* submitContactForm(formObject) at the time now, up to the fetch() call
\* submitContactForm that shows the busy label and leaves the button enabled
submitContactForm_StaysEnabled(f) ==
    IF rateLimited(now, lastSubmit)
    THEN /\ form' = f
         /\ notifications' =
              showNotification(notifications, "Please wait before submitting again", "error")
         /\ UNCHANGED <<lastSubmit, inflight, dispatched, lastDispatch>>
    ELSE /\ lastSubmit' = now
         /\ form' = [f EXCEPT !.button.label = BusyLabel]
         /\ inflight' = Append(inflight, [originalText |-> f.button.label])
         /\ dispatched' = dispatched + 1
         /\ lastDispatch' = now
         /\ UNCHANGED notifications

submitContactForm(f) ==
    IF rateLimited(now, lastSubmit)
    THEN /\ form' = f
         /\ notifications' =
              showNotification(notifications, "Please wait before submitting again", "error")
         /\ UNCHANGED <<lastSubmit, inflight, dispatched, lastDispatch>>
    ELSE /\ lastSubmit' = now
         /\ form' = [f EXCEPT !.button = [disabled |-> TRUE, label |-> BusyLabel]]
         /\ inflight' = Append(inflight, [originalText |-> f.button.label])
         /\ dispatched' = dispatched + 1
         /\ lastDispatch' = now
         /\ UNCHANGED notifications

\* The form's submit listener.  A submit event reaches the form only while its
\* submit button is enabled.
Submit ==
    /\ ~form.button.disabled
    /\ IF isBot(form)
       THEN /\ notifications' = showNotification(notifications, "Message sent successfully!", "success")
            /\ form' = reset(form)
            /\ UNCHANGED <<lastSubmit, inflight, dispatched, lastDispatch>>
       ELSE LET validated == validateForm(form) IN
            IF validated.isValid
            THEN submitContactForm(validated.form)
            ELSE /\ form' = validated.form
                 /\ UNCHANGED <<lastSubmit, inflight, dispatched, lastDispatch,
                                notifications>>
    /\ FormStep(<<"Submit">>)
    /\ UNCHANGED now

Outcomes == {"ok", "http_error", "network_error"}

(* The promise chain fetch().then().catch().finally().  A chain value c has *)
(* the form, the notifications and rejected: the promise at this point of   *)
(* the chain is rejected.                                                    *)

\* .then() that takes every response for a success
thenStage_IgnoresStatus(f, notes, outcome) ==
    IF outcome = "network_error"
    THEN [form |-> f, notifications |-> notes, rejected |-> TRUE]
    ELSE [form |-> reset(f),
          notifications |-> showNotification(notes,
              "Thank you for your message! We'll get back to you soon.", "success"),
          rejected |-> FALSE]

\* .then(response => ...): skipped when fetch() rejected; throws when !response.ok
thenStage(f, notes, outcome) ==
    IF outcome = "ok"
    THEN [form |-> reset(f),
          notifications |-> showNotification(notes,
              "Thank you for your message! We'll get back to you soon.", "success"),
          rejected |-> FALSE]
    ELSE [form |-> f, notifications |-> notes, rejected |-> TRUE]

\* .catch(error => ...): runs on a rejected promise and settles it
catchStage(c) ==
    IF c.rejected
    THEN [c EXCEPT !.notifications = showNotification(@,
                       "Sorry, there was an error sending your message. Please try again.",
                       "error"),
                   !.rejected = FALSE]
    ELSE c

\* .finally() that restores the label and leaves the button disabled
finallyStage_StaysDisabled(c, request) ==
    [c EXCEPT !.form = removeFieldErrors(
                           [@ EXCEPT !.button.label = request.originalText])]

\* .finally(() => ...): the button is restored, every .field-error is removed
finallyStage(c, request) ==
    [c EXCEPT !.form = removeFieldErrors(
                           [@ EXCEPT !.button = [disabled |-> FALSE,
                                                 label |-> request.originalText]])]

\* The fetch() promise settles and the chain runs to its end.
Resolve(i, outcome) ==
    /\ i \in 1..Len(inflight)
    /\ LET chain == finallyStage(catchStage(thenStage(form, notifications, outcome)),
                                 inflight[i])
       IN /\ form' = chain.form
          /\ notifications' = chain.notifications
          /\ unhandled' = (unhandled \/ chain.rejected)
    /\ inflight' = Without(inflight, i)
    /\ op' = <<"Resolve", outcome>>
    /\ UNCHANGED <<sliderVars, widgetVars, now, lastSubmit, dispatched, lastDispatch>>

\* A click on the close button of a notification
CloseNotification(i) ==
    /\ i \in DOMAIN notifications
    /\ notifications' = Without(notifications, i)
    /\ FormStep(<<"CloseNotification">>)
    /\ UNCHANGED <<form, now, lastSubmit, inflight, dispatched, lastDispatch>>

\* The timer of a notification comes due.  The auto-dismiss timer starts the
\* slide-out animation and the removal timer; the removal timer removes the element.
NotificationTimerFires(i) ==
    /\ i \in DOMAIN notifications
    /\ notifications[i].remaining = 0
    /\ notifications' =
         IF notifications[i].stage = "dismiss"
         THEN [notifications EXCEPT ![i].stage = "remove",
                                    ![i].remaining = Quanta(NOTIFICATION_REMOVE_DELAY)]
         ELSE Without(notifications, i)
    /\ FormStep(<<"NotificationTimerFires", notifications[i].stage>>)
    /\ UNCHANGED <<form, now, lastSubmit, inflight, dispatched, lastDispatch>>

\* One quantum passes on the page of the form.
FormTimePasses ==
    /\ now < LastInstant
    /\ \A i \in DOMAIN notifications : notifications[i].remaining > 0
    /\ now' = now + TimeQuantum
    /\ notifications' = [i \in DOMAIN notifications |->
                            [notifications[i] EXCEPT !.remaining = @ - 1]]
    /\ FormStep(<<"TimePasses">>)
    /\ UNCHANGED <<form, lastSubmit, inflight, dispatched, lastDispatch>>

FormNext ==
    \/ \E field \in FieldNames : \E value \in Inputs(field) : InputField(field, value)
    \/ \E field \in FieldNames : BlurField(field)
    \/ \E value \in HoneypotInputs, typed \in BOOLEAN : FillHoneypot(value, typed)
    \/ Submit
    \/ \E i \in DOMAIN inflight, outcome \in Outcomes : Resolve(i, outcome)
    \/ \E i \in DOMAIN notifications : CloseNotification(i)
    \/ \E i \in DOMAIN notifications : NotificationTimerFires(i)
    \/ FormTimePasses

----------------------------------------------------------------------------
(* Specifications: the carousel beside an untouched form, and the form     *)
(* beside an untouched carousel.                                           *)

(* The project filter, the modals and the notifications before any event *)

NoFilter == "no click yet"
NoModal == "null"

\* initializeProjectFilters: the cards as the document has them
FiltersLoaded(categories) ==
    /\ cards = [i \in 1..Len(categories) |->
                   [category |-> categories[i], display |-> "", hidden |-> FALSE,
                    animateIn |-> FALSE]]
    /\ cardTimers = {}
    /\ filter = NoFilter

\* const ModalSystem = { activeModal: null, ... }
ModalsLoaded ==
    /\ modals = {}
    /\ activeModal = NoModal
    /\ overflow = ""

\* A page without project cards, with no modal open and no notification shown
WidgetsIdle ==
    /\ FiltersLoaded(<< >>)
    /\ ModalsLoaded
    /\ detachedTimers = {}

SliderInit ==
    \E n \in 0..MaxSlides, d \in {0, MaxDots} :
        SliderLoaded(n, d) /\ FormLoaded(TRUE) /\ WidgetsIdle /\ op = <<"init">>

SliderSpec == SliderInit /\ [][SliderNext]_vars

(* The carousel of a page without indicator dots, driven by the page's      *)
(* events and timers only.  The event loop runs every timer callback that   *)
(* is due, and time goes on.                                                 *)
PageInit ==
    \E n \in 1..MaxSlides :
        SliderLoaded(n, 0) /\ FormLoaded(TRUE) /\ WidgetsIdle /\ op = <<"init">>

PageNext ==
    \/ NextClick
    \/ PrevClick
    \/ MouseEnter
    \/ MouseLeave
    \/ TabVisible
    \/ TabHidden
    \/ StartupTimerFires
    \/ ResumeTimerFires
    \/ \E id \in TimerIds : AutoplayTick(id)
    \/ SliderTimePasses

PageFairSpec ==
    /\ PageInit
    /\ [][PageNext]_vars
    /\ WF_vars(SliderTimePasses)
    /\ WF_vars(StartupTimerFires)
    /\ WF_vars(ResumeTimerFires)
    /\ WF_vars(\E id \in TimerIds : AutoplayTick(id))

FormInit ==
    \E requiredEmail \in BOOLEAN :
        FormLoaded(requiredEmail) /\ SliderLoaded(0, 0) /\ WidgetsIdle /\ op = <<"init">>

FormSpec == FormInit /\ [][FormNext]_vars

\* The form with both fields required, under a fetch() that settles every
\* request: with a response, or with a rejection when the network fails or the
\* browser gives up.
FormFairInit ==
    \E requiredEmail \in {TRUE} :
        FormLoaded(requiredEmail) /\ SliderLoaded(0, 0) /\ WidgetsIdle /\ op = <<"init">>

FormFairSpec ==
    /\ FormFairInit
    /\ [][FormNext]_vars
    /\ WF_vars(\E i \in 1..Len(inflight), outcome \in Outcomes : Resolve(i, outcome))

----------------------------------------------------------------------------
(* showNotification on its own: the calls, the close button and every timer *)
(* it starts, those of elements that have left the page included.  The      *)
(* function does not read the clock, so only the countdowns move.           *)

\* The pending timer of a notification element
timerOf(n) == [stage |-> n.stage, remaining |-> n.remaining]

Detached(notes) == {timerOf(notes[i]) : i \in DOMAIN notes}

\* a timer callback that looks the notification up in the document
onDetachedTimer_ByQuery(notes) == << >>

\* The callback of a timer whose element has left the page: parentElement is
\* null in the first timer, and remove() of the second finds nothing to remove.
onDetachedTimer(notes) == notes

NotificationStep(name) ==
    /\ op' = name
    /\ UNCHANGED <<sliderVars, form, now, lastSubmit, inflight, dispatched,
                   lastDispatch, unhandled, cards, cardTimers, filter, modals,
                   activeModal, overflow>>

NotificationCalls ==
    {<<"Message sent successfully!", "success">>,
     <<"Please wait before submitting again", "error">>}

CallShowNotification(call) ==
    /\ notifications' = showNotification(notifications, call[1], call[2])
    /\ detachedTimers' = detachedTimers \cup Detached(notifications)
    /\ NotificationStep(<<"CallShowNotification">>)

\* closeBtn's click listener: notification.remove(); its timer stays pending
ClickClose(i) ==
    /\ i \in DOMAIN notifications
    /\ notifications' = Without(notifications, i)
    /\ detachedTimers' = detachedTimers \cup {timerOf(notifications[i])}
    /\ NotificationStep(<<"ClickClose">>)

DetachedTimerFires(timer) ==
    /\ timer \in detachedTimers
    /\ timer.remaining = 0
    /\ notifications' = onDetachedTimer(notifications)
    /\ detachedTimers' = detachedTimers \ {timer}
    /\ NotificationStep(<<"DetachedTimerFires", timer.stage>>)

NotificationTimePasses ==
    /\ notifications # << >> \/ detachedTimers # {}
    /\ \A i \in DOMAIN notifications : notifications[i].remaining > 0
    /\ \A timer \in detachedTimers : timer.remaining > 0
    /\ notifications' = [i \in DOMAIN notifications |->
                            [notifications[i] EXCEPT !.remaining = @ - 1]]
    /\ detachedTimers' = {[timer EXCEPT !.remaining = @ - 1] : timer \in detachedTimers}
    /\ NotificationStep(<<"TimePasses">>)

TimerStages == {"dismiss", "remove"}
Countdowns == 0..Quanta(NOTIFICATION_DISMISS_DELAY)

NotificationInit ==
    \E requiredEmail \in BOOLEAN :
        FormLoaded(requiredEmail) /\ SliderLoaded(0, 0) /\ WidgetsIdle /\ op = <<"init">>

NotificationNext ==
    \/ \E call \in NotificationCalls : CallShowNotification(call)
    \/ \E i \in DOMAIN notifications : ClickClose(i)
    \/ \E i \in DOMAIN notifications : NotificationTimerFires(i)
    \/ \E stage \in TimerStages, r \in Countdowns :
           DetachedTimerFires([stage |-> stage, remaining |-> r])
    \/ NotificationTimePasses

\* The event loop runs every timer callback that is due, and time goes on.
NotificationFairSpec ==
    /\ NotificationInit
    /\ [][NotificationNext]_vars
    /\ WF_vars(NotificationTimePasses)
    /\ WF_vars(\E i \in DOMAIN notifications : NotificationTimerFires(i))
    /\ WF_vars(\E stage \in TimerStages, r \in Countdowns :
                  DetachedTimerFires([stage |-> stage, remaining |-> r]))

----------------------------------------------------------------------------
(* The project filter (initializeProjectFilters) *)

FILTER_HIDE_DELAY == 300
FILTER_STAGGER == 100

Categories == {"web", "design"}
Filters == {"all"} \cup Categories

FilterStep(name) ==
    /\ op' = name
    /\ UNCHANGED <<sliderVars, formVars, detachedTimers, modals, activeModal, overflow>>

\* The body of projectCards.forEach for one card: what the card becomes, and
\* the timer it starts.
shouldShow(selected, card) == selected = "all" \/ card.category = selected

filtered(selected, card) ==
    IF shouldShow(selected, card)
    THEN [card EXCEPT !.hidden = FALSE, !.display = "block"]
    ELSE [card EXCEPT !.hidden = TRUE, !.animateIn = FALSE]

filterTimer(selected, index) ==
    IF shouldShow(selected, cards[index])
    THEN [card |-> index, kind |-> "animate",
          remaining |-> Quanta((index - 1) * FILTER_STAGGER)]
    ELSE [card |-> index, kind |-> "hide", remaining |-> Quanta(FILTER_HIDE_DELAY)]

\* The click listener of a .filter-btn
FilterClick(selected) ==
    /\ filter' = selected
    /\ cards' = [i \in DOMAIN cards |-> filtered(selected, cards[i])]
    /\ cardTimers' = cardTimers \cup {filterTimer(selected, i) : i \in DOMAIN cards}
    /\ FilterStep(<<"FilterClick", selected>>)

\* A timer of the filter comes due.
CardTimerFires(timer) ==
    /\ timer \in cardTimers
    /\ timer.remaining = 0
    /\ cards' = IF timer.kind = "animate"
                THEN [cards EXCEPT ![timer.card].animateIn = TRUE]
                ELSE [cards EXCEPT ![timer.card].display = "none"]
    /\ cardTimers' = cardTimers \ {timer}
    /\ UNCHANGED filter
    /\ FilterStep(<<"CardTimerFires", timer.kind>>)

FilterTimePasses ==
    /\ cardTimers # {}
    /\ \A timer \in cardTimers : timer.remaining > 0
    /\ cardTimers' = {[timer EXCEPT !.remaining = @ - 1] : timer \in cardTimers}
    /\ UNCHANGED <<cards, filter>>
    /\ FilterStep(<<"TimePasses">>)

FilterInit ==
    \E categories \in [1..MaxCards -> Categories] :
        /\ FiltersLoaded(categories) /\ ModalsLoaded /\ detachedTimers = {}
        /\ SliderLoaded(0, 0) /\ FormLoaded(TRUE) /\ op = <<"init">>

FilterNext ==
    \/ \E selected \in Filters : FilterClick(selected)
    \/ \E timer \in cardTimers : CardTimerFires(timer)
    \/ FilterTimePasses

FilterSpec == FilterInit /\ [][FilterNext]_vars

----------------------------------------------------------------------------
(* The modals (ModalSystem) *)

\* The modal types whose element, type + 'Modal', is in the document
ModalTypes == {"terms", "privacy", "cookies"}

\* An attribute the clicked element and its ancestors do not have
Absent == "absent"

ModalStep(name) ==
    /\ op' = name
    /\ UNCHANGED <<sliderVars, formVars, detachedTimers, cards, cardTimers, filter>>

ModalState == [modals |-> modals, activeModal |-> activeModal, overflow |-> overflow]

\* open(type)
open(m, type) ==
    IF type \in ModalTypes
    THEN [modals |-> m.modals \cup {type}, activeModal |-> type, overflow |-> "hidden"]
    ELSE m

\* close(type): the modal of the type, or the active one when type is falsy
close(m, type) ==
    LET modal == IF type # ""
                 THEN IF type \in ModalTypes THEN type ELSE NoModal
                 ELSE m.activeModal
    IN IF modal # NoModal
       THEN [modals |-> m.modals \ {modal}, activeModal |-> NoModal, overflow |-> "auto"]
       ELSE m

\* What a click can land on: a trigger of a modal type (one that names no
\* element included), a close button (with or without a type), the backdrop
\* of a modal, or anything else.
ClickTargets ==
    {[dataModal |-> type, dataClose |-> Absent, isModal |-> FALSE] :
         type \in ModalTypes \cup {"missing"}}
    \cup {[dataModal |-> Absent, dataClose |-> type, isModal |-> FALSE] :
              type \in ModalTypes \cup {""}}
    \cup {[dataModal |-> Absent, dataClose |-> Absent, isModal |-> backdrop] :
              backdrop \in BOOLEAN}

\* The document's click listener.  A backdrop or a close button can be clicked
\* only while its modal is displayed.
DocumentClick(target) ==
    /\ target.isModal => modals # {}
    /\ target.dataClose = "" => modals # {}
    /\ target.dataClose \in ModalTypes => target.dataClose \in modals
    /\ LET opened == IF target.dataModal # Absent
                     THEN open(ModalState, target.dataModal) ELSE ModalState
           closed == IF target.dataClose # Absent
                     THEN close(opened, target.dataClose) ELSE opened
           outside == IF target.isModal THEN close(closed, "") ELSE closed
       IN /\ modals' = outside.modals
          /\ activeModal' = outside.activeModal
          /\ overflow' = outside.overflow
    /\ ModalStep(<<"DocumentClick", target.dataModal, target.dataClose>>)

\* The document's keydown listener, for the Escape key
EscapeKey ==
    /\ LET closed == IF activeModal # NoModal THEN close(ModalState, "") ELSE ModalState
       IN /\ modals' = closed.modals
          /\ activeModal' = closed.activeModal
          /\ overflow' = closed.overflow
    /\ ModalStep(<<"EscapeKey">>)

ModalInit ==
    \E requiredEmail \in BOOLEAN :
        FormLoaded(requiredEmail) /\ SliderLoaded(0, 0) /\ WidgetsIdle /\ op = <<"init">>

ModalNext ==
    \/ \E target \in ClickTargets : DocumentClick(target)
    \/ EscapeKey

ModalSpec == ModalInit /\ [][ModalNext]_vars

----------------------------------------------------------------------------
(* Properties of the carousel *)

\* The steps that change currentIndex by an explicit show(), next() or prev() call
\* and do not call startAutoplay().
ExplicitNavigation ==
    {"NextClick", "PrevClick", "DotClick", "CallShow", "CallNext", "CallPrev"}

\* C1: once stopAutoplay() has run and until startAutoplay() is called again, no
\* step is an autoplay tick, whatever time passes, and a step that changes
\* currentIndex is an explicit show/next/prev call.
C1_NoTickWhileStopped ==
    [][stopped =>
         /\ op'[1] # "AutoplayTick"
         /\ (stopped' /\ slider'.currentIndex # slider.currentIndex)
               => op'[1] \in ExplicitNavigation]_vars

\* Stopped by a click whose resume timer has since run down to zero: the whole
\* resume delay has passed with autoplay stopped.
C1_Witness ==
    /\ stopped
    /\ op = <<"TimePasses">>
    /\ PendingResume = 1
    /\ resumeTimers[0] = 1

\* C2: at most one repeating timer is scheduled at any time, and this.interval
\* is non-null exactly when one is scheduled (and is then its handle).
C2_SingleTimer ==
    /\ Cardinality(DOMAIN slider.timers) <= 1
    /\ (slider.interval # Null) <=> (DOMAIN slider.timers # {})
    /\ slider.interval # Null => slider.interval \in DOMAIN slider.timers

\* A resume timer fired and started autoplay while the pointer was over the
\* section and another resume timer was still pending.
C2_Witness ==
    /\ op = <<"ResumeTimerFires">>
    /\ hovering
    /\ PendingResume > 0
    /\ slider.interval # Null

\* C3: with at least one slide, currentIndex is a valid index, slides[currentIndex]
\* is the one active slide, and the active indicators are dots[currentIndex] alone
\* when that indicator exists and none otherwise.
C3_OneActive ==
    slider.length >= 1 =>
        /\ slider.currentIndex \in 0..(slider.length - 1)
        /\ slider.slideActive = {slider.currentIndex}
        /\ slider.dotActive =
              IF slider.currentIndex < slider.dots THEN {slider.currentIndex} ELSE {}

\* An autoplay tick moved a three-slide carousel to a slide that has an indicator.
C3_Witness ==
    /\ op = <<"AutoplayTick">>
    /\ slider.length = 3
    /\ slider.currentIndex = 1
    /\ slider.dotActive = {1}

\* C4: with N >= 1 slides, N steps in a row that each call next() leave
\* currentIndex where it was before the first of them.
C4_NextCycle ==
    (slider.length >= 1 /\ nextRun.count = slider.length)
        => slider.currentIndex = nextRun.start

\* Three next() steps in a row on three slides, started in the middle.
C4_Witness ==
    /\ slider.length = 3
    /\ nextRun = [count |-> 3, start |-> 1]

\* C5: with N >= 1 slides, prev() followed by next(), and next() followed by
\* prev(), leave currentIndex where it was before the two calls.
C5_RoundTrip ==
    (slider.length >= 1 /\ roundTrip.kind # "none")
        => slider.currentIndex = roundTrip.origin

\* prev() then next() across the wrap-around at index 0.
C5_Witness ==
    /\ slider.length = 3
    /\ roundTrip = [kind |-> "prev-next", origin |-> 0]
    /\ slider.currentIndex = 0

\* C6: show(index) with index < 0 or index >= N changes neither currentIndex, nor
\* an active mark of a slide or an indicator, nor the autoplay timer.
C6_ShowOutOfRange ==
    [][(op'[1] = "CallShow" /\ (op'[2] < 0 \/ op'[2] >= slider.length))
          => slider' = slider]_vars

\* show(-1) was called while autoplay was running on a non-empty carousel.
C6_Witness ==
    /\ op = <<"CallShow", 0 - 1>>
    /\ slider.length >= 1
    /\ slider.interval # Null

\* C7 (as claimed): on an empty carousel no operation and no timer firing surfaces
\* an error, and currentIndex stays as it was.
C7_EmptyCarouselNoError ==
    slider.length = 0 => (~uncaught /\ slider.currentIndex = 0)

----------------------------------------------------------------------------
(* Properties of the submission pipeline *)

AllFieldsEmpty(f) == \A field \in FieldNames : f.value[field] = Empty

\* C8: a submit with a non-empty honeypot sends no request, shows a success
\* notification, resets the form and leaves lastSubmit as it was, whatever the
\* fields hold and whether or not the cooldown has elapsed.
C8_HoneypotSubmit ==
    [][(op'[1] = "Submit" /\ form.honeypot # Empty) =>
          /\ dispatched' = dispatched
          /\ inflight' = inflight
          /\ Len(notifications') = 1
          /\ notifications'[1].type = "success"
          /\ AllFieldsEmpty(form')
          /\ form'.honeypot = Empty
          /\ lastSubmit' = lastSubmit]_vars

\* The fake success was shown inside the cooldown of an accepted submission.
C8_Witness ==
    /\ op = <<"Submit">>
    /\ Len(notifications) = 1
    /\ notifications[1].message = "Message sent successfully!"
    /\ dispatched = 1
    /\ now - lastDispatch < FORM_SUBMIT_COOLDOWN

\* C9: once a request was sent at time t, a valid submission attempt at a time
\* less than the cooldown after t is rejected with the "Please wait" error
\* notification and sends no request.
C9_RateLimit ==
    [][(/\ op'[1] = "Submit"
        /\ form.honeypot = Empty
        /\ validateForm(form).isValid
        /\ lastDispatch # NoTimer
        /\ now - lastDispatch < FORM_SUBMIT_COOLDOWN) =>
          /\ dispatched' = dispatched
          /\ inflight' = inflight
          /\ Len(notifications') = 1
          /\ notifications'[1].type = "error"
          /\ notifications'[1].message = "Please wait before submitting again"]_vars

\* A second valid attempt one quantum after the accepted one was turned away.
C9_Witness ==
    /\ op = <<"Submit">>
    /\ Len(notifications) = 1
    /\ notifications[1].message = "Please wait before submitting again"
    /\ notifications[1].remaining = Quanta(NOTIFICATION_DISMISS_DELAY)
    /\ dispatched = 1
    /\ now - lastDispatch = TimeQuantum

\* C10: lastSubmit changes only in the accept step of a submit: the honeypot is
\* empty, the form is valid, the cooldown has elapsed, a request is sent and
\* lastSubmit becomes the current time.  No other step changes it.
C10_LastSubmitFrame ==
    [][lastSubmit' # lastSubmit =>
          /\ op'[1] = "Submit"
          /\ form.honeypot = Empty
          /\ validateForm(form).isValid
          /\ now - lastSubmit >= FORM_SUBMIT_COOLDOWN
          /\ lastSubmit' = now
          /\ dispatched' = dispatched + 1]_vars

\* After the submission accepted at page load, a rate-limited attempt and then an
\* attempt stopped by validation were made: lastSubmit is still the time of the
\* accepted one.
C10_Witness ==
    /\ op = <<"Submit">>
    /\ form.error["name"] # NoError
    /\ Len(notifications) = 1
    /\ notifications[1].message = "Please wait before submitting again"
    /\ lastSubmit = PageLoadTime
    /\ now > lastSubmit

\* The submit button is back in its idle state and no field shows an error.
Restored(f) ==
    /\ f.button = [disabled |-> FALSE, label |-> IdleLabel]
    /\ \A field \in FieldNames : f.error[field] = NoError

\* C11: every request sent to the endpoint is settled, and the step that settles
\* it, whether with an ok status, a failure status or a network failure, leaves
\* the submit button enabled with its idle label and no field error displayed.
C11_SubmissionEnds ==
    /\ [][op'[1] = "Resolve" => Restored(form')]_vars
    /\ (inflight # << >>) ~> (inflight = << >> /\ Restored(form))

\* A request failed at network level while a field error, raised by a blur
\* during the wait, was displayed: the button and the fields are restored.
C11_Witness ==
    /\ op = <<"Resolve", "network_error">>
    /\ dispatched = 1
    /\ Restored(form)
    /\ form.value["name"] = <<"7">>

\* C12: a request that resolves with an ok status resets the form and shows a
\* success notification; one that resolves with a non-ok status or fails at
\* network level shows an error notification and leaves the field values as
\* they were; in every case no rejection leaves the promise chain unhandled.
C12_ResolveOutcome ==
    [][op'[1] = "Resolve" =>
          /\ ~unhandled'
          /\ Len(notifications') = 1
          /\ IF op'[2] = "ok"
             THEN /\ notifications'[1].type = "success"
                  /\ AllFieldsEmpty(form')
                  /\ form'.honeypot = Empty
             ELSE /\ notifications'[1].type = "error"
                  /\ form'.value = form.value
                  /\ form'.honeypot = form.honeypot]_vars

\* A non-ok response left the typed name in the form under an error notification.
C12_Witness ==
    /\ op = <<"Resolve", "http_error">>
    /\ form.value["name"] = <<"J", "o">>
    /\ Len(notifications) = 1
    /\ notifications[1].type = "error"
    /\ ~unhandled

\* C17: at most one request is in flight at any time.
C17_OneInFlight == Len(inflight) <= 1

\* A request is still pending after the cooldown has elapsed and the form holds
\* a valid message: only the disabled button stands before a second request.
C17_Witness ==
    /\ Len(inflight) = 1
    /\ now - lastDispatch >= FORM_SUBMIT_COOLDOWN
    /\ form.button.disabled
    /\ form.honeypot = Empty
    /\ validateForm(form).isValid

(* ------------------------------------------------------------------------ *)
(* Properties of validation                                                  *)
(* ------------------------------------------------------------------------ *)

\* A value made of whitespace only, the empty one included
Blank(str) == \A i \in 1..Len(str) : str[i] \in Whitespace

\* A name that fails both name checks: not blank, fewer than 2 characters
\* after trimming, and with a digit.
FailsBothNameChecks(str) ==
    /\ ~Blank(str)
    /\ Len(TrimEnd(TrimStart(str))) < 2
    /\ \E i \in 1..Len(str) : str[i] \in Digits

\* validateField has just run on the name field.
NameValidated ==
    \/ op = <<"BlurField", "name">>
    \/ op = <<"Submit">> /\ form.value["name"] # Empty

C14_BlankRequiredEmail ==
    [][(form.required["email"] /\ Blank(form.value["email"])) =>
          /\ ~CheckField(form, "email").isValid
          /\ ~validateForm(form).isValid
          /\ op' = <<"BlurField", "email">> =>
                 form'.error["email"] = "This field is required"
          /\ (op' = <<"Submit">> /\ form.honeypot = Empty) =>
                 /\ form'.error["email"] = "This field is required"
                 /\ dispatched' = dispatched
                 /\ inflight' = inflight]_vars

\* A submit with a valid name and a whitespace-only required email was stopped.
C14_Witness ==
    /\ op = <<"Submit">>
    /\ form.required["email"]
    /\ form.value = [name |-> <<"J", "o">>, email |-> <<" ">>]
    /\ form.error = [name |-> NoError, email |-> "This field is required"]
    /\ dispatched = 0

\* C15: a submit of a form whose non-required email field holds a malformed
\* address fails full-form validation and sends no request.
C15_OptionalEmailChecked ==
    [][(/\ op' = <<"Submit">>
        /\ form.honeypot = Empty
        /\ ~form.required["email"]
        /\ ~Blank(form.value["email"])
        /\ ~emailRegexTest(trim(form.value["email"]))) =>
          /\ ~validateForm(form).isValid
          /\ dispatched' = dispatched]_vars

\* C16: a submit with an empty honeypot and a failing required field sends no
\* request, shows no notification, leaves the values as they are and puts its
\* inline error on every failing required field.
C16_InvalidSubmit ==
    [][(/\ op' = <<"Submit">>
        /\ form.honeypot = Empty
        /\ \E field \in RequiredFields(form) : ~CheckField(form, field).isValid) =>
          /\ dispatched' = dispatched
          /\ inflight' = inflight
          /\ notifications' = notifications
          /\ form'.value = form.value
          /\ form'.honeypot = form.honeypot
          /\ \A field \in RequiredFields(form) :
                 ~CheckField(form, field).isValid =>
                     /\ form'.error[field] # NoError
                     /\ form'.error[field] = CheckField(form, field).errorMessage]_vars

\* Inside the cooldown of an accepted submission, whose notification was closed,
\* a submit with two failing fields showed both inline errors and nothing else.
C16_Witness ==
    /\ op = <<"Submit">>
    /\ dispatched = 1
    /\ now - lastDispatch < FORM_SUBMIT_COOLDOWN
    /\ notifications = << >>
    /\ form.honeypot = Empty
    /\ form.error["name"] # NoError
    /\ form.error["email"] # NoError

(* ------------------------------------------------------------------------ *)
(* Properties of the notifications                                           *)
(* ------------------------------------------------------------------------ *)

\* The message of the showNotification call made by the step, "" when the step
\* makes none.
ShownMessage ==
    IF op'[1] = "Resolve"
    THEN IF op'[2] = "ok"
         THEN "Thank you for your message! We'll get back to you soon."
         ELSE "Sorry, there was an error sending your message. Please try again."
    ELSE IF op' # <<"Submit">> THEN ""
    ELSE IF form.honeypot # Empty THEN "Message sent successfully!"
    ELSE IF validateForm(form).isValid /\ now - lastSubmit < FORM_SUBMIT_COOLDOWN
    THEN "Please wait before submitting again"
    ELSE ""

\* C18: the page holds zero or one notification at any time, and after a step
\* that calls showNotification it holds exactly the one just created, with its
\* message and a fresh auto-dismiss timer.
C18_SingleNotification ==
    /\ [](Len(notifications) <= 1)
    /\ [][ShownMessage # "" =>
             /\ Len(notifications') = 1
             /\ notifications'[1].message = ShownMessage
             /\ notifications'[1].stage = "dismiss"
             /\ notifications'[1].remaining = Quanta(NOTIFICATION_DISMISS_DELAY)]_vars

\* The response to a second request replaced whatever the first one had shown.
C18_Witness ==
    /\ op = <<"Resolve", "http_error">>
    /\ dispatched = 2
    /\ Len(notifications) = 1
    /\ notifications[1].type = "error"
    /\ notifications[1].remaining = Quanta(NOTIFICATION_DISMISS_DELAY)

(* ------------------------------------------------------------------------ *)
(* Properties of the resume delay                                            *)
(* ------------------------------------------------------------------------ *)

\* C19: while the resume delay of the last user navigation is running, and no
\* hover exit or visibility change came since that navigation, no autoplay
\* tick advances currentIndex.
C19_NoTickInResumeDelay ==
    ~(/\ op = <<"AutoplayTick">>
      /\ slider.currentIndex # before
      /\ undisturbed
      /\ ResumePendingBeyond(0))

\* C20: after a user navigation the carousel is eventually Playing again, a
\* repeating timer being scheduled, unless a hover enter or a change to hidden
\* follows; and the step of the resume timer is one that leaves it Playing.
C20_ResumesAfterNavigation ==
    /\ [][op'[1] = "ResumeTimerFires" =>
             /\ slider'.interval # Null
             /\ slider'.interval \in DOMAIN slider'.timers]_vars
    /\ (op[1] \in NavigationSteps) ~>
           (slider.interval # Null \/ op[1] \in {"MouseEnter", "TabHidden"})

\* The resume timer of a navigation fired with nothing else having started
\* autoplay since: the carousel is Playing.
C20_Witness ==
    /\ op = <<"ResumeTimerFires">>
    /\ slider.interval # Null
    /\ ~hovering
    /\ visibility = "visible"
    /\ PendingResume = 0

(* ------------------------------------------------------------------------ *)
(* Properties of hover and visibility                                        *)
(* ------------------------------------------------------------------------ *)

OneShotSteps == {"StartupTimerFires", "ResumeTimerFires"}

\* C21: while the pointer is over the section, a startup or resume timer that
\* fires leaves the carousel Paused: no repeating timer is scheduled.
C21_HoverStaysPaused ==
    (hovering /\ op[1] \in OneShotSteps) =>
        (slider.interval = Null /\ DOMAIN slider.timers = {})

\* C22: while the page is hidden, a startup or resume timer that fires leaves
\* the carousel Paused: no repeating timer is scheduled.
C22_HiddenStaysPaused ==
    (visibility = "hidden" /\ op[1] \in OneShotSteps) =>
        (slider.interval = Null /\ DOMAIN slider.timers = {})

\* C23: a visibility change to visible advances currentIndex by one position
\* modulo N and leaves the carousel Playing with exactly one repeating timer,
\* newly armed, whether or not a repeating timer was scheduled before.
C23_VisibleAdvances ==
    [][op'[1] = "TabVisible" =>
          /\ slider'.currentIndex = (slider.currentIndex + 1) % slider.length
          /\ slider'.interval # Null
          /\ DOMAIN slider'.timers = {slider'.interval}
          /\ slider'.timers[slider'.interval] = Quanta(TESTIMONIAL_AUTOPLAY_DELAY)]_vars

\* The page became visible after a resume timer had started autoplay while it
\* was hidden: the index wrapped to 0 and one timer is scheduled.
C23_Witness ==
    /\ op = <<"TabVisible">>
    /\ slider.length = 3
    /\ before = 2
    /\ slider.currentIndex = 0
    /\ PendingResume = 0
    /\ undisturbed = FALSE
    /\ DOMAIN slider.timers = {slider.interval}

(* ------------------------------------------------------------------------ *)
(* Properties of the life of a notification                                  *)
(* ------------------------------------------------------------------------ *)

\* C24: a click on the close button removes the notification at once; the
\* timer of a notification that has left the page changes nothing in the
\* page; the removal timer removes its own notification; and once the calls
\* of showNotification stop, the page ends up without a notification.
C24_NotificationRemoved ==
    /\ [][op'[1] = "ClickClose" => Len(notifications') = Len(notifications) - 1]_vars
    /\ [][op'[1] = "DetachedTimerFires" => notifications' = notifications]_vars
    /\ [][op' = <<"NotificationTimerFires", "remove">> =>
             Len(notifications') = Len(notifications) - 1]_vars
    /\ <>[](op[1] # "CallShowNotification") => <>[](notifications = << >>)

\* The removal timer of a replaced notification fired while its successor was
\* in the page, and the successor is still there.
C24_Witness ==
    /\ op = <<"DetachedTimerFires", "remove">>
    /\ Len(notifications) = 1
    /\ notifications[1].stage = "dismiss"

(* ------------------------------------------------------------------------ *)
(* Properties of the project filter                                          *)
(* ------------------------------------------------------------------------ *)

Displayed(card) == card.display # "none" /\ ~card.hidden

\* C25: after a filter click, once no timer of the filter is pending, a card
\* is displayed exactly when the last filter clicked is "all" or its category.
C25_DisplayedIffSelected ==
    (filter # NoFilter /\ cardTimers = {}) =>
        \A i \in DOMAIN cards : Displayed(cards[i]) <=> shouldShow(filter, cards[i])

(* ------------------------------------------------------------------------ *)
(* Properties of the modals                                                  *)
(* ------------------------------------------------------------------------ *)

\* C26: activeModal is non-null exactly when some modal is marked active, and
\* body overflow is hidden exactly when some modal is marked active.
C26_ModalBookkeeping ==
    /\ (activeModal # NoModal) <=> (modals # {})
    /\ (overflow = "hidden") <=> (modals # {})

====
